---- MODULE Spec2Model ----
(***************************************************************************)
(* Claim redemption of self-claim-link-v2: the claim handler               *)
(* (src/app/api/claim/route.ts), the order create and edit handlers        *)
(* (src/app/api/orders/route.ts) and the settings update as concurrent     *)
(* request handlers over the orders / order_products / settings tables.    *)
(* Every awaited database statement is one atomic step; the synchronous    *)
(* code that follows it, up to the next await, belongs to the same step.   *)
(***************************************************************************)
EXTENDS Integers, Sequences, FiniteSets, TLC

(* ---------------------------------------------------------------- bounds *)
NumClaims == 2          \* concurrent POST /api/claim requests
NumEdits == 1           \* concurrent PUT /api/orders requests
NumProducts == 2        \* rows of the products table
NumCreates == 2         \* concurrent POST /api/orders requests
MaxTime == 1            \* the clock runs 0..MaxTime (one unit = one day)

(* ------------------------------------------------------------- constants *)
NoDate == -1            \* SQL NULL of a TIMESTAMP column
HTTP_OK == 200
HTTP_CREATED == 201
HTTP_BAD_REQUEST == 400
HTTP_NOT_FOUND == 404
HTTP_SERVER_ERROR == 500
DefaultExpirationDays == 7      \* the seeded value of default_expiration_days

ClaimReqs == 1..NumClaims
EditReqs == 1..NumEdits
CreateReqs == 1..NumCreates
Products == 1..NumProducts

\* order identifiers: "A" and "B" are the initial orders', "C" is free for a
\* rename, "Z" is never the identifier of an order
OrderIds == {"A", "B"}
FreeId == "C"
UnknownId == "Z"
\* internal ids (SERIAL PRIMARY KEY): orders 1 and 2 exist initially, 3 does not
\* (until a creation inserts it)
OrderKeys == {1, 2}
MissingKey == 3

VARIABLES
    now,            \* wall clock: new Date() / CURRENT_TIMESTAMP
    orders,         \* table orders: a set of rows
    orderProducts,  \* table order_products: a set of rows
    claims,         \* per claim request: position, locals, response
    edits,          \* per edit request: position, locals, response
    settings,       \* table settings: key -> value
    creates,        \* per create request: position, locals, response
    deletes,        \* per order delete request: position, locals, response
    admins,         \* table admins: a set of rows
    logins,         \* per login request: position, locals, response
    adminDeletes,   \* per delete_admin request: position, locals, response
    rateLimiter,    \* the RateLimiter singleton: its limits and its store
    rateLog,        \* the requests the rate limiting wrapper has answered
    pool,           \* the module variable pool of the database layer
    dbCalls         \* per getDatabase() call: position, what it returned

vars == <<now, orders, orderProducts, claims, edits, settings, creates, deletes,
          admins, logins, adminDeletes, rateLimiter, rateLog, pool, dbCalls>>

\* the state of the admin accounts, of the rate limiter and of the database
\* layer, which the order handlers leave alone
ledgerVars == <<orders, orderProducts, claims, edits, settings, creates, deletes>>
accountVars == <<admins, logins, adminDeletes>>
limiterVars == <<rateLimiter, rateLog>>
poolVars == <<pool, dbCalls>>
otherVars == <<accountVars, limiterVars, poolVars>>

(* ------------------------------------------------------------- the tables *)
\* table products: static in this model (read-only for the claim engine)
ProductRow(p) ==
    [id |-> p, name |-> <<"name", p>>, description |-> <<"desc", p>>,
     download_link |-> <<"https://x/", p>>, image_url |-> <<"img", p>>]

ProductsTable == {ProductRow(p) : p \in Products}

\* a row of table orders as INSERT INTO orders creates it (schema defaults)
NewOrderRow(id, order_id, expiration_date, one_time_use) ==
    [id |-> id, order_id |-> order_id, claim_status |-> "available",
     claim_timestamp |-> NoDate, claim_count |-> 0,
     expiration_date |-> expiration_date, one_time_use |-> one_time_use]

\* all arrangements of a finite set as a sequence (row order of a SELECT
\* without ORDER BY is the database's choice)
SeqsOf(S) ==
    {s \in [1..Cardinality(S) -> S] : \A i, j \in 1..Cardinality(S) : s[i] = s[j] => i = j}

\* SELECT o.* FROM orders o WHERE o.order_id = ?   (db.get: first row or undefined)
SelectOrderByOrderId(tbl, orderId) ==
    LET hit == {o \in tbl : o.order_id = orderId}
    IN  IF hit = {} THEN <<>> ELSE <<CHOOSE o \in hit : TRUE>>

\* SELECT p.* FROM products p JOIN order_products op ON p.id = op.product_id
\* WHERE op.order_id = ?      (the set of joined rows)
SelectProductsOfOrder(opTbl, key) ==
    {p \in ProductsTable : \E op \in opTbl : op.order_id = key /\ op.product_id = p.id}

\* (variant: the UPDATE without its WHERE clause)
UpdateClaimStateAllRows(tbl, orderId, status, count, t) ==
    {[o EXCEPT !.claim_status = status, !.claim_timestamp = t, !.claim_count = count] :
        o \in tbl}

\* UPDATE orders SET claim_status = ?, claim_timestamp = CURRENT_TIMESTAMP,
\* claim_count = ? WHERE order_id = ?
UpdateClaimState(tbl, orderId, status, count, t) ==
    {IF o.order_id = orderId
     THEN [o EXCEPT !.claim_status = status, !.claim_timestamp = t, !.claim_count = count]
     ELSE o : o \in tbl}

(* ---------------------------------------------------- the claim handler *)
\* order.expiration_date && isAfter(new Date(), new Date(order.expiration_date))
IsExpired(order, t) == order.expiration_date # NoDate /\ t > order.expiration_date

\* (variant: the comparison written > 1)
OneTimeBlockedAfterTwo(order) == order.one_time_use /\ order.claim_count > 1

\* (variant: the one-time-use policy read from the settings at redemption)
OneTimeBlockedBySetting(order) ==
    settings.one_time_use_enabled = "true" /\ order.claim_count >= 1

\* order.one_time_use && order.claim_count >= 1
OneTimeBlocked(order) == order.one_time_use /\ order.claim_count >= 1

\* (variant: the one-time-use check made before the expiration check)
EligibilityExpiredLast(order, t) ==
    IF OneTimeBlocked(order) THEN "ALREADY_CLAIMED"
    ELSE IF IsExpired(order, t) THEN "EXPIRED"
    ELSE "OK"

\* the two policy checks in the order the handler makes them: expiration
\* first, one-time use second
Eligibility(order, t) ==
    IF IsExpired(order, t) THEN "EXPIRED"
    ELSE IF OneTimeBlocked(order) THEN "ALREADY_CLAIMED"
    ELSE "OK"

\* const newClaimCount = order.claim_count + 1
NewClaimCount(order) == order.claim_count + 1

\* (variant: every successful claim marks the order claimed)
NewClaimStatusAlwaysClaimed(order) == "claimed"

\* const newClaimStatus = order.one_time_use ? 'claimed' : 'available'
NewClaimStatus(order) == IF order.one_time_use THEN "claimed" ELSE "available"

\* (variant: a rejection body that carries a download_links key)
RejectionWithLinks(message, status) ==
    [success |-> FALSE, message |-> message, status |-> status, download_links |-> <<>>]

\* NextResponse.json({ success: false, message }, { status })
Rejection(message, status) ==
    [success |-> FALSE, message |-> message, status |-> status]

\* (variant: the links listed in the opposite order to the products)
DownloadLinksReversed(rows) ==
    [i \in 1..Len(rows) |-> rows[Len(rows) + 1 - i].download_link]

\* products.map(product => product.download_link)
DownloadLinks(rows) == [i \in 1..Len(rows) |-> rows[i].download_link]

\* products.map(product => ({ id, name, description, image_url }))
ProductViews(rows) ==
    [i \in 1..Len(rows) |->
        [id |-> rows[i].id, name |-> rows[i].name,
         description |-> rows[i].description, image_url |-> rows[i].image_url]]

\* the success body; the message text depends on the count only
SuccessResponse(rows, count) ==
    [success |-> TRUE, message |-> <<"Products claimed successfully!", count>>,
     status |-> HTTP_OK, products |-> ProductViews(rows),
     download_links |-> DownloadLinks(rows), claim_count |-> count]

NoResponse == [success |-> FALSE, message |-> "", status |-> 0]

MsgRequired == "Order ID is required"
MsgNotFound == "Order not found"
MsgExpired == "This order has expired"
MsgAlreadyClaimed == "This order has already been claimed (one-time use only)"
MsgNoProducts == "No products found for this order"
MsgInternal == "Internal server error"

\* the outcome a response stands for
Outcome(resp) ==
    IF resp.success THEN "SUCCESS"
    ELSE IF resp.message = MsgNotFound THEN "NOT_FOUND"
    ELSE IF resp.message = MsgExpired THEN "EXPIRED"
    ELSE IF resp.message = MsgAlreadyClaimed THEN "ALREADY_CLAIMED"
    ELSE IF resp.message = MsgNoProducts THEN "NO_PRODUCTS"
    ELSE IF resp.message = MsgRequired THEN "BAD_REQUEST"
    ELSE IF resp.message = MsgInternal THEN "SERVER_ERROR"
    ELSE "NONE"

\* (variant: the missing row is dereferenced, and the catch block answers 500)
ThrownInsteadOfNotFound == Rejection("Internal server error", HTTP_SERVER_ERROR)

\* the 404 of an identifier that matches no order
NotFoundResponse == Rejection(MsgNotFound, HTTP_NOT_FOUND)

IdleClaim ==
    [pc |-> "idle", orderId |-> "", order |-> <<>>,
     products |-> <<>>, updates |-> 0, resp |-> NoResponse]

\* the handler returns: the response stays, and with it (as a record of what the
\* request saw) the identifier it sent and the row its lookup read
Answer(req, resp) ==
    [IdleClaim EXCEPT !.pc = "done", !.orderId = req.orderId, !.order = req.order,
                      !.updates = req.updates, !.resp = resp]

\* (variant: the lookup made before the check of orderId, which then finds no
\* row for the missing identifier)
ClaimBadRequestAfterLookup(r) ==
    /\ claims[r].pc = "idle"
    /\ claims' = [claims EXCEPT ![r] =
          Answer([@ EXCEPT !.order = SelectOrderByOrderId(orders, "")], NotFoundResponse)]
    /\ UNCHANGED <<now, orders, orderProducts, edits, settings, creates, deletes, otherVars>>

\* the rejection of a body without orderId: if (!orderId) -> 400
ClaimBadRequest(r) ==
    /\ claims[r].pc = "idle"
    /\ claims' = [claims EXCEPT ![r] =
          Answer(@, Rejection(MsgRequired, HTTP_BAD_REQUEST))]
    /\ UNCHANGED <<now, orders, orderProducts, edits, settings, creates, deletes, otherVars>>

\* what the lookup step leaves in the request: the row read and either a
\* rejection or the go-ahead to load the products
LookupResult(req, orderId, order, t) ==
    LET verdict == IF order = <<>> THEN "NOT_FOUND" ELSE Eligibility(order[1], t)
        seen == [req EXCEPT !.orderId = orderId, !.order = order]
    IN  CASE verdict = "NOT_FOUND" -> Answer(seen, NotFoundResponse)
          [] verdict = "EXPIRED" -> Answer(seen, Rejection(MsgExpired, HTTP_BAD_REQUEST))
          [] verdict = "ALREADY_CLAIMED" ->
               Answer(seen, Rejection(MsgAlreadyClaimed, HTTP_BAD_REQUEST))
          [] OTHER -> [seen EXCEPT !.pc = "products"]

\* POST /api/claim with body { orderId }: db.get of the order, then the
\* not-found, expiration and one-time-use checks
ClaimLookup(r) ==
    /\ claims[r].pc = "idle"
    /\ \E orderId \in OrderIds \cup {UnknownId} :
          claims' = [claims EXCEPT ![r] =
              LookupResult(@, orderId, SelectOrderByOrderId(orders, orderId), now)]
    /\ UNCHANGED <<now, orders, orderProducts, edits, settings, creates, deletes, otherVars>>

\* (variant: the UPDATE is run before the empty check, so a request that ends
\* in NO_PRODUCTS has counted a claim)
ClaimProductsCountingFirst(r) ==
    /\ claims[r].pc = "products"
    /\ \E rows \in SeqsOf(SelectProductsOfOrder(orderProducts, claims[r].order[1].id)) :
          /\ claims' = [claims EXCEPT ![r] =
                IF Len(rows) = 0
                THEN Answer(@, Rejection(MsgNoProducts, HTTP_NOT_FOUND))
                ELSE [@ EXCEPT !.pc = "update", !.products = rows]]
          /\ orders' = IF Len(rows) = 0
                       THEN UpdateClaimState(orders, claims[r].orderId,
                                NewClaimStatus(claims[r].order[1]),
                                NewClaimCount(claims[r].order[1]), now)
                       ELSE orders
    /\ UNCHANGED <<now, orderProducts, edits, settings, creates, deletes, otherVars>>

\* db.all of the order's products, then the empty check
ClaimProducts(r) ==
    /\ claims[r].pc = "products"
    /\ \E rows \in SeqsOf(SelectProductsOfOrder(orderProducts, claims[r].order[1].id)) :
          claims' = [claims EXCEPT ![r] =
              IF Len(rows) = 0
              THEN Answer(@, Rejection(MsgNoProducts, HTTP_NOT_FOUND))
              ELSE [@ EXCEPT !.pc = "update", !.products = rows]]
    /\ UNCHANGED <<now, orders, orderProducts, edits, settings, creates, deletes, otherVars>>

\* db.run of the UPDATE with the values computed from the row read at the
\* lookup, then the success response
ClaimUpdate(r) ==
    /\ claims[r].pc = "update"
    /\ LET order == claims[r].order[1]
       IN  /\ orders' = UpdateClaimState(orders, claims[r].orderId,
                                         NewClaimStatus(order), NewClaimCount(order), now)
           /\ claims' = [claims EXCEPT ![r] =
                 Answer([@ EXCEPT !.updates = @ + 1],
                        SuccessResponse(claims[r].products, NewClaimCount(order)))]
    /\ UNCHANGED <<now, orderProducts, edits, settings, creates, deletes, otherVars>>

\* (variant: the statement that fails is one that follows the UPDATE, so the
\* request is answered 500 with its claim counted)
ClaimFailAfterWrite(r) ==
    /\ claims[r].pc \in {"idle", "products", "update"}
    /\ claims' = [claims EXCEPT ![r] = Answer(@, Rejection(MsgInternal, HTTP_SERVER_ERROR))]
    /\ orders' = IF claims[r].pc = "update"
                 THEN UpdateClaimState(orders, claims[r].orderId,
                          NewClaimStatus(claims[r].order[1]),
                          NewClaimCount(claims[r].order[1]), now)
                 ELSE orders
    /\ UNCHANGED <<now, orderProducts, edits, settings, creates, deletes, otherVars>>

\* a storage operation rejects (getDatabase or db.get at the start, db.all, or
\* the db.run of the UPDATE, which then is not applied): the catch block answers
\* 500 'Internal server error'
ClaimFail(r) ==
    /\ claims[r].pc \in {"idle", "products", "update"}
    /\ claims' = [claims EXCEPT ![r] = Answer(@, Rejection(MsgInternal, HTTP_SERVER_ERROR))]
    /\ UNCHANGED <<now, orders, orderProducts, edits, settings, creates, deletes, otherVars>>

(* -------------------------------------------------- the order edit handler *)
\* an optional boolean of a JSON body: <<>> when the key is absent
OptBool == {<<>>, <<TRUE>>, <<FALSE>>}

\* one_time_use ?? true
OrTrue(opt) == IF opt = <<>> THEN TRUE ELSE opt[1]

\* the truthiness of one_time_use in (!existingOrder.one_time_use && one_time_use)
Truthy(opt) == opt # <<>> /\ opt[1]

\* product_ids arrays an admin sends: non-empty, without repetition
ProductIdLists == {<<1>>, <<2, 1>>}

\* expiration_days ? addDays(new Date(), expiration_days).toISOString() : null
ExpirationDate(expiration_days, t) ==
    IF expiration_days # 0 THEN t + expiration_days ELSE NoDate

\* let newClaimCount = existingOrder.claim_count;
\* if (!existingOrder.one_time_use && one_time_use) newClaimCount = 0
EditClaimCount(existing, one_time_use) ==
    IF ~existing.one_time_use /\ Truthy(one_time_use) THEN 0 ELSE existing.claim_count

\* SELECT id, one_time_use, claim_count FROM orders WHERE id = $1
SelectOrderById(tbl, id) ==
    LET hit == {o \in tbl : o.id = id}
    IN  IF hit = {} THEN <<>>
        ELSE LET o == CHOOSE x \in hit : TRUE
             IN  <<[id |-> o.id, one_time_use |-> o.one_time_use,
                    claim_count |-> o.claim_count]>>

\* (variant: the column declared without UNIQUE)
NotConstrained(tbl, id, order_id) == FALSE

\* order_id VARCHAR(255) UNIQUE: the UPDATE would give two rows one order_id
ViolatesUnique(tbl, id, order_id) ==
    \E o \in tbl : o.id # id /\ o.order_id = order_id /\ \E x \in tbl : x.id = id

\* UPDATE orders SET order_id = $1, expiration_date = $2, one_time_use = $3,
\* claim_count = $4 WHERE id = $5
UpdateOrderRow(tbl, id, order_id, expiration_date, one_time_use, claim_count) ==
    {IF o.id = id
     THEN [o EXCEPT !.order_id = order_id, !.expiration_date = expiration_date,
                    !.one_time_use = one_time_use, !.claim_count = claim_count]
     ELSE o : o \in tbl}

\* (variant: the column declared without REFERENCES orders(id))
NotReferencing(tbl, key) == TRUE

\* order_id INTEGER REFERENCES orders(id): an INSERT INTO order_products needs
\* the order row to exist
ReferencesOrder(tbl, key) == \E o \in tbl : o.id = key

\* DELETE FROM order_products WHERE order_id = $1
DeleteOrderProducts(opTbl, id) == {op \in opTbl : op.order_id # id}

IdleEdit ==
    [pc |-> "idle", id |-> 0, order_id |-> "", product_ids |-> <<>>,
     expiration_days |-> 0, one_time_use |-> <<>>, existing |-> <<>>,
     expirationDate |-> NoDate, newClaimCount |-> 0, i |-> 1, status |-> 0]

\* the handler returns: its locals are gone, the status stays
Answered(req, status) == [IdleEdit EXCEPT !.pc = "done", !.id = req.id, !.status = status]

\* what the first step leaves in the request: its body, the row read and the
\* values computed from it, or the 404
ReadResult(req, body, existing, t) ==
    LET got == [req EXCEPT !.id = body.id, !.order_id = body.order_id,
                           !.product_ids = body.product_ids,
                           !.expiration_days = body.expiration_days,
                           !.one_time_use = body.one_time_use]
    IN  IF existing = <<>>
        THEN Answered(got, HTTP_NOT_FOUND)
        ELSE [got EXCEPT !.pc = "update", !.existing = existing,
                         !.expirationDate = ExpirationDate(body.expiration_days, t),
                         !.newClaimCount = EditClaimCount(existing[1], body.one_time_use)]

\* the bodies an admin sends: well-formed (id, order_id and product_ids given);
\* the order edited is order 1 (order 2 stands by) or one that does not exist
EditBodies ==
    [id : {1, MissingKey}, order_id : OrderIds \cup {FreeId}, product_ids : ProductIdLists,
     expiration_days : {0, 1}, one_time_use : OptBool]

\* PUT /api/orders: the SELECT of the existing row, the 404, and the values
\* computed from the row (every product of product_ids exists: the per-product
\* SELECTs all find a row)
EditRead(e) ==
    /\ edits[e].pc = "idle"
    /\ \E body \in EditBodies :
          edits' = [edits EXCEPT ![e] =
              ReadResult(@, body, SelectOrderById(orders, body.id), now)]
    /\ UNCHANGED <<now, orders, orderProducts, claims, settings, creates, deletes, otherVars>>

\* the UPDATE of the order row; a unique violation throws and the catch answers 500
EditUpdate(e) ==
    /\ edits[e].pc = "update"
    /\ IF ViolatesUnique(orders, edits[e].id, edits[e].order_id)
       THEN /\ edits' = [edits EXCEPT ![e] = Answered(@, HTTP_SERVER_ERROR)]
            /\ UNCHANGED orders
       ELSE /\ orders' = UpdateOrderRow(orders, edits[e].id, edits[e].order_id,
                                        edits[e].expirationDate, OrTrue(edits[e].one_time_use),
                                        edits[e].newClaimCount)
            /\ edits' = [edits EXCEPT ![e] = [@ EXCEPT !.pc = "delete"]]
    /\ UNCHANGED <<now, orderProducts, claims, settings, creates, deletes, otherVars>>

\* the DELETE of the order's product associations
EditDeleteProducts(e) ==
    /\ edits[e].pc = "delete"
    /\ orderProducts' = DeleteOrderProducts(orderProducts, edits[e].id)
    /\ edits' = [edits EXCEPT ![e] = [@ EXCEPT !.pc = "insert"]]
    /\ UNCHANGED <<now, orders, claims, settings, creates, deletes, otherVars>>

\* one INSERT INTO order_products of the loop; UNIQUE(order_id, product_id) makes
\* a repeated pair throw (500), and so does the foreign key when the order row
\* is gone; after the last INSERT the handler reads the row back and answers 200
EditInsertProduct(e) ==
    /\ edits[e].pc = "insert"
    /\ LET row == [order_id |-> edits[e].id, product_id |-> edits[e].product_ids[edits[e].i]]
       IN  IF row \in orderProducts \/ ~ReferencesOrder(orders, row.order_id)
           THEN /\ edits' = [edits EXCEPT ![e] = Answered(@, HTTP_SERVER_ERROR)]
                /\ UNCHANGED orderProducts
           ELSE /\ orderProducts' = orderProducts \cup {row}
                /\ edits' = [edits EXCEPT ![e] =
                      IF edits[e].i = Len(edits[e].product_ids)
                      THEN Answered(@, HTTP_OK)
                      ELSE [@ EXCEPT !.i = @ + 1]]
    /\ UNCHANGED <<now, orders, claims, settings, creates, deletes, otherVars>>

(* ------------------------------------------------ the order create handler *)
\* an optional number of a JSON body: <<>> when the key is absent
OptDays == {<<>>, <<1>>}

\* the value the handler's test of expiration_days sees: undefined is falsy, as 0 is
DaysOrZero(opt) == IF opt = <<>> THEN 0 ELSE opt[1]

\* the next value of the SERIAL PRIMARY KEY of orders
NextKey(tbl) == 1 + Cardinality(tbl)

MsgExists == "Order ID already exists"

IdleCreate ==
    [pc |-> "idle", order_id |-> "", product_ids |-> <<>>, expiration_days |-> <<>>,
     one_time_use |-> <<>>, expirationDate |-> NoDate, newOrderId |-> 0, i |-> 1,
     status |-> 0, error |-> ""]

\* the handler returns: the body it was sent, the key it inserted, the status
\* and the error text stay as a record of the request
Created(req, status, error) ==
    [req EXCEPT !.pc = "done", !.i = 1, !.status = status, !.error = error]

\* the bodies an admin sends: well-formed (order_id and product_ids given); the
\* order_id is one in use ("A") or a free one
CreateBodies ==
    [order_id : {"A", FreeId}, product_ids : ProductIdLists,
     expiration_days : OptDays, one_time_use : OptBool]

\* POST /api/orders: SELECT id FROM orders WHERE order_id = $1 and the 400
CreateCheck(c) ==
    /\ creates[c].pc = "idle"
    /\ \E body \in CreateBodies :
          LET got == [creates[c] EXCEPT !.order_id = body.order_id,
                                         !.product_ids = body.product_ids,
                                         !.expiration_days = body.expiration_days,
                                         !.one_time_use = body.one_time_use]
          IN  creates' = [creates EXCEPT ![c] =
                 IF SelectOrderByOrderId(orders, body.order_id) # <<>>
                 THEN Created(got, HTTP_BAD_REQUEST, MsgExists)
                 ELSE [got EXCEPT !.pc = "verify"]]
    /\ UNCHANGED <<now, orders, orderProducts, claims, edits, settings, deletes, otherVars>>

\* the per-product SELECTs (every product of product_ids exists), then the
\* expiration date computed from the clock
CreateVerify(c) ==
    /\ creates[c].pc = "verify"
    /\ creates' = [creates EXCEPT ![c] =
          [@ EXCEPT !.pc = "insert",
                    !.expirationDate = ExpirationDate(DaysOrZero(creates[c].expiration_days), now)]]
    /\ UNCHANGED <<now, orders, orderProducts, claims, edits, settings, deletes, otherVars>>

\* INSERT INTO orders (order_id, expiration_date, one_time_use, created_by)
\* RETURNING id; order_id UNIQUE makes a taken order_id throw (500)
CreateInsert(c) ==
    /\ creates[c].pc = "insert"
    /\ IF \E o \in orders : o.order_id = creates[c].order_id
       THEN /\ creates' = [creates EXCEPT ![c] = Created(@, HTTP_SERVER_ERROR, MsgInternal)]
            /\ UNCHANGED orders
       ELSE /\ orders' = orders \cup
                   {NewOrderRow(NextKey(orders), creates[c].order_id,
                                creates[c].expirationDate, OrTrue(creates[c].one_time_use))}
            /\ creates' = [creates EXCEPT ![c] =
                   [@ EXCEPT !.pc = "products", !.newOrderId = NextKey(orders)]]
    /\ UNCHANGED <<now, orderProducts, claims, edits, settings, deletes, otherVars>>

\* one INSERT INTO order_products of the loop (a repeated pair or a missing
\* order row makes it throw); after the last one the handler reads the order
\* back and answers 201
CreateInsertProduct(c) ==
    /\ creates[c].pc = "products"
    /\ LET row == [order_id |-> creates[c].newOrderId,
                   product_id |-> creates[c].product_ids[creates[c].i]]
       IN  IF row \in orderProducts \/ ~ReferencesOrder(orders, row.order_id)
           THEN /\ creates' = [creates EXCEPT ![c] =
                      Created(@, HTTP_SERVER_ERROR, MsgInternal)]
                /\ UNCHANGED orderProducts
           ELSE /\ orderProducts' = orderProducts \cup {row}
                /\ creates' = [creates EXCEPT ![c] =
                      IF creates[c].i = Len(creates[c].product_ids)
                      THEN Created(@, HTTP_CREATED, "")
                      ELSE [@ EXCEPT !.i = @ + 1]]
    /\ UNCHANGED <<now, orders, claims, edits, settings, deletes, otherVars>>

(* ---------------------------------------------------- the settings handler *)
\* the values an admin gives the two policy settings
SettingValues ==
    [default_expiration_days |-> {1, DefaultExpirationDays},
     one_time_use_enabled |-> {"true", "false"}]

\* the rows the schema initialisation seeds
DefaultSettings ==
    [default_expiration_days |-> DefaultExpirationDays, one_time_use_enabled |-> "true"]

\* PUT /api/settings, action 'update_settings': one INSERT ... ON CONFLICT (key)
\* DO UPDATE of the loop over the entries of settings
UpdateSetting ==
    /\ \E key \in DOMAIN SettingValues : \E value \in SettingValues[key] :
          settings' = [settings EXCEPT ![key] = value]
    /\ UNCHANGED <<now, orders, orderProducts, claims, edits, creates, deletes, otherVars>>

(* ------------------------------------------------ the order delete handler *)
IdleDelete == [pc |-> "idle", id |-> <<>>, status |-> 0]

\* the query parameter id of DELETE /api/orders: absent, or the key of an order
\* (one that exists or one that does not)
DeleteParams == {<<>>} \cup {<<k>> : k \in OrderKeys \cup {MissingKey}}

\* DELETE /api/orders?id=: the 400 of a missing id, or DELETE FROM orders
\* WHERE id = $1, which removes the order's product associations with it
\* (ON DELETE CASCADE)
DeleteOrderRow(d) ==
    /\ deletes[d].pc = "idle"
    /\ \E id \in DeleteParams :
          IF id = <<>>
          THEN /\ deletes' = [deletes EXCEPT ![d] =
                      [@ EXCEPT !.pc = "done", !.status = HTTP_BAD_REQUEST]]
               /\ UNCHANGED <<orders, orderProducts>>
          ELSE /\ orders' = {o \in orders : o.id # id[1]}
               /\ orderProducts' =
                     IF ReferencesOrder(orders, id[1])
                     THEN DeleteOrderProducts(orderProducts, id[1])
                     ELSE orderProducts
               /\ deletes' = [deletes EXCEPT ![d] = [@ EXCEPT !.pc = "products", !.id = id]]
    /\ UNCHANGED <<now, claims, edits, settings, creates, otherVars>>

\* DELETE FROM order_products WHERE order_id = $1, then the 200
DeleteProductsOfOrder(d) ==
    /\ deletes[d].pc = "products"
    /\ orderProducts' = DeleteOrderProducts(orderProducts, deletes[d].id[1])
    /\ deletes' = [deletes EXCEPT ![d] = [@ EXCEPT !.pc = "done", !.status = HTTP_OK]]
    /\ UNCHANGED <<now, orders, claims, edits, settings, creates, otherVars>>

(* ------------------------------------------------------ the login handler *)
HTTP_UNAUTHORIZED == 401
\* WHEN failed_login_attempts >= 4
LockThreshold == 4
\* NOW() + INTERVAL '30 minutes'; the clock of the login handler counts minutes
LockMinutes == 30

AdminNames == {"admin", "owner"}
UnknownName == "ghost"

\* a row of admins as the login handler uses it
AdminRow(id, username, failed_login_attempts, locked_until) ==
    [id |-> id, username |-> username,
     failed_login_attempts |-> failed_login_attempts, locked_until |-> locked_until]

\* SELECT locked_until FROM admins WHERE username = $1 AND locked_until > NOW()
\* returns a row (a NULL locked_until compares as not greater)
IsAdminLocked(tbl, username, t) ==
    \E a \in tbl : a.username = username /\ a.locked_until # NoDate /\ a.locked_until > t

\* SELECT * FROM admins WHERE username = $1: result.rows[0] || null
GetAdminByUsername(tbl, username) ==
    LET hit == {a \in tbl : a.username = username}
    IN  IF hit = {} THEN <<>> ELSE <<CHOOSE a \in hit : TRUE>>

\* UPDATE admins SET failed_login_attempts = failed_login_attempts + 1,
\* locked_until = CASE WHEN failed_login_attempts >= 4 THEN NOW() + 30 minutes
\* ELSE locked_until END WHERE username = $1 (the CASE reads the old counter)
RecordFailedLogin(tbl, username, t) ==
    {IF a.username = username
     THEN [a EXCEPT !.failed_login_attempts = @ + 1,
                    !.locked_until = IF a.failed_login_attempts >= LockThreshold
                                     THEN t + LockMinutes ELSE @]
     ELSE a : a \in tbl}

\* UPDATE admins SET failed_login_attempts = 0, locked_until = NULL WHERE username = $1
ResetFailedLogins(tbl, username) ==
    {IF a.username = username
     THEN [a EXCEPT !.failed_login_attempts = 0, !.locked_until = NoDate]
     ELSE a : a \in tbl}

IdleLogin ==
    [pc |-> "idle", username |-> "", passwordValid |-> FALSE, lockedAtCheck |-> FALSE,
     status |-> 0]

\* the bodies a client sends: well-formed credentials, for an admin or for a
\* name that is no admin, with the admin's password or another one
LoginBodies == [username : AdminNames \cup {UnknownName}, passwordValid : BOOLEAN]

\* POST /api/auth/login: isAdminLocked and the 401 of a locked account
LoginCheckLock(l) ==
    /\ logins[l].pc = "idle"
    /\ \E body \in LoginBodies :
          LET locked == IsAdminLocked(admins, body.username, now)
          IN  logins' = [logins EXCEPT ![l] =
                 [@ EXCEPT !.pc = IF locked THEN "done" ELSE "get",
                           !.username = body.username,
                           !.passwordValid = body.passwordValid,
                           !.lockedAtCheck = locked,
                           !.status = IF locked THEN HTTP_UNAUTHORIZED ELSE 0]]
    /\ UNCHANGED <<now, admins, adminDeletes, ledgerVars, limiterVars, poolVars>>

\* getAdminByUsername and bcrypt.compare: on to the failure record when there
\* is no such admin or the password is wrong, to the reset otherwise
LoginGetAdmin(l) ==
    /\ logins[l].pc = "get"
    /\ logins' = [logins EXCEPT ![l] =
          [@ EXCEPT !.pc = IF GetAdminByUsername(admins, logins[l].username) # <<>>
                              /\ logins[l].passwordValid
                           THEN "reset" ELSE "record"]]
    /\ UNCHANGED <<now, admins, adminDeletes, ledgerVars, limiterVars, poolVars>>

\* recordFailedLogin, then AuthenticationError('Invalid credentials'): 401
LoginRecordFailure(l) ==
    /\ logins[l].pc = "record"
    /\ admins' = RecordFailedLogin(admins, logins[l].username, now)
    /\ logins' = [logins EXCEPT ![l] = [@ EXCEPT !.pc = "done", !.status = HTTP_UNAUTHORIZED]]
    /\ UNCHANGED <<now, adminDeletes, ledgerVars, limiterVars, poolVars>>

\* resetFailedLogins, then the token in a 200
LoginReset(l) ==
    /\ logins[l].pc = "reset"
    /\ admins' = ResetFailedLogins(admins, logins[l].username)
    /\ logins' = [logins EXCEPT ![l] = [@ EXCEPT !.pc = "done", !.status = HTTP_OK]]
    /\ UNCHANGED <<now, adminDeletes, ledgerVars, limiterVars, poolVars>>

(* ----------------------------------------------- the delete_admin handler *)
IdleAdminDelete == [pc |-> "idle", adminId |-> 0, count |-> 0, status |-> 0]

\* the adminId of the body: an admin, or an id that no admin has
AdminIds == {1, 2, 3}

\* PUT /api/settings, action delete_admin: SELECT COUNT(*) FROM admins and the
\* 400 of the last admin
AdminDeleteCount(a) ==
    /\ adminDeletes[a].pc = "idle"
    /\ \E id \in AdminIds :
          LET count == Cardinality(admins)
          IN  adminDeletes' = [adminDeletes EXCEPT ![a] =
                 [@ EXCEPT !.pc = IF count <= 1 THEN "done" ELSE "delete",
                           !.adminId = id, !.count = count,
                           !.status = IF count <= 1 THEN HTTP_BAD_REQUEST ELSE 0]]
    /\ UNCHANGED <<now, admins, logins, ledgerVars, limiterVars, poolVars>>

\* DELETE FROM admins WHERE id = $1, then the 200
AdminDeleteRow(a) ==
    /\ adminDeletes[a].pc = "delete"
    /\ admins' = {x \in admins : x.id # adminDeletes[a].adminId}
    /\ adminDeletes' = [adminDeletes EXCEPT ![a] = [@ EXCEPT !.pc = "done", !.status = HTTP_OK]]
    /\ UNCHANGED <<now, logins, ledgerVars, limiterVars, poolVars>>

(* ------------------------------------------------------- the rate limiter *)
HTTP_TOO_MANY == 429

\* getClientId: the first x-forwarded-for address, or the fallback name of a
\* request without the headers
ClientIds == {"10.0.0.1", "development-client"}

\* the limits the wrapper was built with: { windowMs, max }
LimitConfigs == [windowMs : {1, 2}, max : {1, 2}]

\* (variant: the limit compared with > instead of >=)
IsRateLimitedOffByOne(store, clientId, t, limits) ==
    IF store[clientId] = <<>> \/ t > store[clientId][1].resetTime
    THEN [store |-> [store EXCEPT ![clientId] = <<[count |-> 1, resetTime |-> t + limits.windowMs]>>],
          isLimited |-> FALSE, remainingRequests |-> limits.max - 1,
          resetTime |-> t + limits.windowMs]
    ELSE IF store[clientId][1].count > limits.max
    THEN [store |-> store, isLimited |-> TRUE, remainingRequests |-> 0,
          resetTime |-> store[clientId][1].resetTime]
    ELSE [store |-> [store EXCEPT ![clientId] = <<[store[clientId][1] EXCEPT !.count = @ + 1]>>],
          isLimited |-> FALSE,
          remainingRequests |-> limits.max - (store[clientId][1].count + 1),
          resetTime |-> store[clientId][1].resetTime]

\* RateLimiter.isRateLimited: the store after the call and the result
IsRateLimited(store, clientId, t, limits) ==
    IF store[clientId] = <<>> \/ t > store[clientId][1].resetTime
    THEN [store |-> [store EXCEPT ![clientId] = <<[count |-> 1, resetTime |-> t + limits.windowMs]>>],
          isLimited |-> FALSE, remainingRequests |-> limits.max - 1,
          resetTime |-> t + limits.windowMs]
    ELSE IF store[clientId][1].count >= limits.max
    THEN [store |-> store, isLimited |-> TRUE, remainingRequests |-> 0,
          resetTime |-> store[clientId][1].resetTime]
    ELSE [store |-> [store EXCEPT ![clientId] = <<[store[clientId][1] EXCEPT !.count = @ + 1]>>],
          isLimited |-> FALSE,
          remainingRequests |-> limits.max - (store[clientId][1].count + 1),
          resetTime |-> store[clientId][1].resetTime]

\* the wrapper returned by withRateLimit, called with a request of clientId:
\* the 429 without a call of the handler, or the handler's response (the
\* wrapped handler catches its own errors and answers); synchronous up to the
\* call of the handler, so one step
RateLimitedRequest(clientId) ==
    /\ LET result == IsRateLimited(rateLimiter.store, clientId, now, rateLimiter.limits)
       IN  /\ rateLimiter' = [rateLimiter EXCEPT !.store = result.store]
           /\ rateLog' = Append(rateLog,
                 [clientId |-> clientId, at |-> now,
                  status |-> IF result.isLimited THEN HTTP_TOO_MANY ELSE HTTP_OK,
                  handled |-> IF result.isLimited THEN 0 ELSE 1,
                  remaining |-> result.remainingRequests,
                  resetTime |-> result.resetTime])
    /\ UNCHANGED <<now, ledgerVars, accountVars, poolVars>>

\* RateLimiter.cleanup, run by the interval timer: expired entries are deleted
Cleanup ==
    /\ rateLimiter' = [rateLimiter EXCEPT !.store =
          [c \in DOMAIN rateLimiter.store |->
              IF rateLimiter.store[c] # <<>> /\ now > rateLimiter.store[c][1].resetTime
              THEN <<>> ELSE rateLimiter.store[c]]]
    /\ UNCHANGED <<now, rateLog, ledgerVars, accountVars, poolVars>>

(* ----------------------------------------------------------- getDatabase *)
\* let pool: Pool | null = null, with what has happened to the Pool object:
\* how many were constructed, whether the connection test passed and whether
\* the schema was initialized
NullPool == [set |-> FALSE, constructed |-> 0, tested |-> FALSE, initialized |-> FALSE]

IdleDbCall == [pc |-> "idle", got |-> <<>>]

\* getDatabase(), up to its first await: if (pool) return pool; otherwise
\* pool = new Pool(...) and the connection test is started
GetDatabaseEnter(k) ==
    /\ dbCalls[k].pc = "idle"
    /\ IF pool.set
       THEN /\ dbCalls' = [dbCalls EXCEPT ![k] =
                   [pc |-> "returned",
                    got |-> <<[tested |-> pool.tested, initialized |-> pool.initialized]>>]]
            /\ UNCHANGED pool
       ELSE /\ pool' = [pool EXCEPT !.set = TRUE, !.constructed = @ + 1]
            /\ dbCalls' = [dbCalls EXCEPT ![k] = [@ EXCEPT !.pc = "connect"]]
    /\ UNCHANGED <<now, ledgerVars, accountVars, limiterVars>>

\* the connection test: pool.connect() and SELECT NOW(); a failure throws
\* DatabaseError and leaves pool as it is
ConnectionTest(k) ==
    /\ dbCalls[k].pc = "connect"
    /\ \E ok \in BOOLEAN :
          IF ok
          THEN /\ pool' = [pool EXCEPT !.tested = TRUE]
               /\ dbCalls' = [dbCalls EXCEPT ![k] = [@ EXCEPT !.pc = "initialize"]]
          ELSE /\ dbCalls' = [dbCalls EXCEPT ![k] = [@ EXCEPT !.pc = "thrown"]]
               /\ UNCHANGED pool
    /\ UNCHANGED <<now, ledgerVars, accountVars, limiterVars>>

\* await initializeDatabase(), then return pool; a failure throws
InitializeDatabase(k) ==
    /\ dbCalls[k].pc = "initialize"
    /\ \E ok \in BOOLEAN :
          IF ok
          THEN /\ pool' = [pool EXCEPT !.initialized = TRUE]
               /\ dbCalls' = [dbCalls EXCEPT ![k] =
                     [pc |-> "returned", got |-> <<[tested |-> pool.tested, initialized |-> TRUE]>>]]
          ELSE /\ dbCalls' = [dbCalls EXCEPT ![k] = [@ EXCEPT !.pc = "thrown"]]
               /\ UNCHANGED pool
    /\ UNCHANGED <<now, ledgerVars, accountVars, limiterVars>>

(* ------------------------------------------------------------- the clock *)
Tick ==
    /\ now < MaxTime
    /\ now' = now + 1
    /\ UNCHANGED <<orders, orderProducts, claims, edits, settings, creates, deletes, otherVars>>

(* ----------------------------------------------------- the specifications *)
\* no order deletion, login, delete_admin, rate-limited request or
\* getDatabase() call has been made
NoLedger ==
    /\ orders = {} /\ orderProducts = {} /\ claims = <<>> /\ edits = <<>>
    /\ settings = DefaultSettings /\ creates = <<>> /\ deletes = <<>>
NoAccounts == admins = {} /\ logins = <<>> /\ adminDeletes = <<>>
NoLimiter == rateLimiter = <<>> /\ rateLog = <<>>
NoPool == pool = <<>> /\ dbCalls = <<>>
InitOthers == deletes = <<>> /\ NoAccounts /\ NoLimiter /\ NoPool

\* the ledger an admin has set up through POST /api/orders: order 1 ("A") with
\* its products, never claimed; order 2 ("B"), one-time use, whose only product
\* may have been deleted from the catalog since (DELETE /api/products), which
\* leaves it without product rows to join
InitialLedgers ==
    {<<{NewOrderRow(1, "A", e1, u1), NewOrderRow(2, "B", NoDate, TRUE)},
       {[order_id |-> 1, product_id |-> p] : p \in ps1}
          \cup {[order_id |-> 2, product_id |-> p] : p \in ps2}>> :
        e1 \in {NoDate, 0}, u1 \in BOOLEAN, ps1 \in {{1}, Products}, ps2 \in {{}, {1}}}

Init ==
    /\ now = 0
    /\ \E l \in InitialLedgers : orders = l[1] /\ orderProducts = l[2]
    /\ claims = [r \in ClaimReqs |-> IdleClaim]
    /\ edits = [e \in EditReqs |-> IdleEdit]
    /\ settings = DefaultSettings
    /\ creates = [c \in CreateReqs |-> IdleCreate]
    /\ InitOthers

\* concurrent claim requests and the clock
Next ==
    \/ \E r \in ClaimReqs : ClaimBadRequest(r)
    \/ \E r \in ClaimReqs : ClaimLookup(r)
    \/ \E r \in ClaimReqs : ClaimProducts(r)
    \/ \E r \in ClaimReqs : ClaimUpdate(r)
    \/ Tick

Spec == Init /\ [][Next]_vars

\* concurrent claim requests, concurrent order edits and the clock
NextEdit ==
    \/ \E r \in ClaimReqs : ClaimBadRequest(r)
    \/ \E r \in ClaimReqs : ClaimLookup(r)
    \/ \E r \in ClaimReqs : ClaimProducts(r)
    \/ \E r \in ClaimReqs : ClaimUpdate(r)
    \/ \E e \in EditReqs : EditRead(e)
    \/ \E e \in EditReqs : EditUpdate(e)
    \/ \E e \in EditReqs : EditDeleteProducts(e)
    \/ \E e \in EditReqs : EditInsertProduct(e)
    \/ Tick

SpecEdit == Init /\ [][NextEdit]_vars

\* the claim handler called by one buyer, one call after the other, with no
\* admin edit: request r is sent when every request before it was answered
NumSeqClaims == 3
SeqReqs == 1..NumSeqClaims

InitSeq ==
    /\ now = 0
    /\ \E l \in InitialLedgers : orders = l[1] /\ orderProducts = l[2]
    /\ claims = [r \in SeqReqs |-> IdleClaim]
    /\ edits = [e \in EditReqs |-> IdleEdit]
    /\ settings = DefaultSettings
    /\ creates = [c \in CreateReqs |-> IdleCreate]
    /\ InitOthers

InTurn(r) == \A q \in SeqReqs : q < r => claims[q].pc = "done"

NextSeq ==
    \/ \E r \in SeqReqs : InTurn(r) /\ ClaimBadRequest(r)
    \/ \E r \in SeqReqs : InTurn(r) /\ ClaimLookup(r)
    \/ \E r \in SeqReqs : InTurn(r) /\ ClaimProducts(r)
    \/ \E r \in SeqReqs : InTurn(r) /\ ClaimUpdate(r)
    \/ Tick

SpecSeq == InitSeq /\ [][NextSeq]_vars

\* the handlers called one at a time, claims and an order edit in any order: a
\* request is sent when no other request is in progress
Quiet ==
    /\ \A r \in DOMAIN claims : claims[r].pc \in {"idle", "done"}
    /\ \A e \in DOMAIN edits : edits[e].pc \in {"idle", "done"}

NextEditSeq ==
    \/ \E r \in SeqReqs : InTurn(r) /\ Quiet /\ ClaimBadRequest(r)
    \/ \E r \in SeqReqs : InTurn(r) /\ Quiet /\ ClaimLookup(r)
    \/ \E r \in SeqReqs : ClaimProducts(r)
    \/ \E r \in SeqReqs : ClaimUpdate(r)
    \/ \E e \in EditReqs : Quiet /\ EditRead(e)
    \/ \E e \in EditReqs : EditUpdate(e)
    \/ \E e \in EditReqs : EditDeleteProducts(e)
    \/ \E e \in EditReqs : EditInsertProduct(e)
    \/ Tick

SpecEditSeq == InitSeq /\ [][NextEditSeq]_vars

\* claim requests, sent one after the other, while an admin changes the policy
\* settings at any moment
NumPolicyClaims == 2
PolicyReqs == 1..NumPolicyClaims

InitPolicy ==
    /\ now = 0
    /\ \E l \in InitialLedgers : orders = l[1] /\ orderProducts = l[2]
    /\ claims = [r \in PolicyReqs |-> IdleClaim]
    /\ edits = [e \in EditReqs |-> IdleEdit]
    /\ settings = DefaultSettings
    /\ creates = [c \in CreateReqs |-> IdleCreate]
    /\ InitOthers

InTurnPolicy(r) == \A q \in PolicyReqs : q < r => claims[q].pc = "done"

NextPolicy ==
    \/ \E r \in PolicyReqs : InTurnPolicy(r) /\ ClaimBadRequest(r)
    \/ \E r \in PolicyReqs : InTurnPolicy(r) /\ ClaimLookup(r)
    \/ \E r \in PolicyReqs : InTurnPolicy(r) /\ ClaimProducts(r)
    \/ \E r \in PolicyReqs : InTurnPolicy(r) /\ ClaimUpdate(r)
    \/ UpdateSetting
    \/ Tick

SpecPolicy == InitPolicy /\ [][NextPolicy]_vars

\* concurrent order creations while an admin changes the policy settings
NextCreate ==
    \/ \E c \in CreateReqs : CreateCheck(c)
    \/ \E c \in CreateReqs : CreateVerify(c)
    \/ \E c \in CreateReqs : CreateInsert(c)
    \/ \E c \in CreateReqs : CreateInsertProduct(c)
    \/ UpdateSetting
    \/ Tick

SpecCreate == Init /\ [][NextCreate]_vars

\* concurrent order creations and concurrent order edits; the bodies carry
\* order_id and product_ids only (the policy fields do not bear on identifiers),
\* and an edit keeps the one product
PlainCreate(c) == creates'[c].expiration_days = <<>> /\ creates'[c].one_time_use = <<>>
PlainEdit(e) ==
    /\ edits'[e].expiration_days = 0 /\ edits'[e].one_time_use = <<>>
    /\ edits'[e].product_ids \in {<<>>, <<1>>}

NextIds ==
    \/ \E c \in CreateReqs : CreateCheck(c) /\ PlainCreate(c)
    \/ \E c \in CreateReqs : CreateVerify(c)
    \/ \E c \in CreateReqs : CreateInsert(c)
    \/ \E c \in CreateReqs : CreateInsertProduct(c)
    \/ \E e \in EditReqs : EditRead(e) /\ PlainEdit(e)
    \/ \E e \in EditReqs : EditUpdate(e)
    \/ \E e \in EditReqs : EditDeleteProducts(e)
    \/ \E e \in EditReqs : EditInsertProduct(e)

\* two orders with one product each, never claimed
InitIds ==
    /\ now = 0
    /\ orders = {NewOrderRow(1, "A", NoDate, TRUE), NewOrderRow(2, "B", NoDate, TRUE)}
    /\ orderProducts = {[order_id |-> 1, product_id |-> 1], [order_id |-> 2, product_id |-> 1]}
    /\ claims = [r \in ClaimReqs |-> IdleClaim]
    /\ edits = [e \in EditReqs |-> IdleEdit]
    /\ settings = DefaultSettings
    /\ creates = [c \in CreateReqs |-> IdleCreate]
    /\ InitOthers

SpecIds == InitIds /\ [][NextIds]_vars

\* claims sent one after the other (a retry follows the answer it retries),
\* with storage operations that may fail
NextFail ==
    \/ \E r \in SeqReqs : InTurn(r) /\ ClaimBadRequest(r)
    \/ \E r \in SeqReqs : InTurn(r) /\ ClaimLookup(r)
    \/ \E r \in SeqReqs : InTurn(r) /\ ClaimProducts(r)
    \/ \E r \in SeqReqs : InTurn(r) /\ ClaimUpdate(r)
    \/ \E r \in SeqReqs : InTurn(r) /\ ClaimFail(r)
    \/ Tick

SpecFail == InitSeq /\ [][NextFail]_vars

\* concurrent claims while the admin creates orders: order "A" does not exist
\* yet, and the creations carry order_id and product_ids only
InitLate ==
    /\ now = 0
    /\ orders = {NewOrderRow(1, "B", NoDate, TRUE)}
    /\ orderProducts = {[order_id |-> 1, product_id |-> 1]}
    /\ claims = [r \in ClaimReqs |-> IdleClaim]
    /\ edits = [e \in EditReqs |-> IdleEdit]
    /\ settings = DefaultSettings
    /\ creates = [c \in CreateReqs |-> IdleCreate]
    /\ InitOthers

NextLate ==
    \/ \E r \in ClaimReqs : ClaimBadRequest(r)
    \/ \E r \in ClaimReqs : ClaimLookup(r)
    \/ \E r \in ClaimReqs : ClaimProducts(r)
    \/ \E r \in ClaimReqs : ClaimUpdate(r)
    \/ \E c \in CreateReqs : CreateCheck(c) /\ PlainCreate(c)
    \/ \E c \in CreateReqs : CreateVerify(c)
    \/ \E c \in CreateReqs : CreateInsert(c)
    \/ \E c \in CreateReqs : CreateInsertProduct(c)

SpecLate == InitLate /\ [][NextLate]_vars

\* order deletions concurrent with order edits (bodies as in SpecIds)
NumDeletes == 2
DeleteReqs == 1..NumDeletes

InitDelete ==
    /\ now = 0
    /\ orders = {NewOrderRow(1, "A", NoDate, TRUE), NewOrderRow(2, "B", NoDate, TRUE)}
    /\ orderProducts = {[order_id |-> 1, product_id |-> 1], [order_id |-> 2, product_id |-> 1]}
    /\ claims = [r \in ClaimReqs |-> IdleClaim]
    /\ edits = [e \in EditReqs |-> IdleEdit]
    /\ settings = DefaultSettings
    /\ creates = [c \in CreateReqs |-> IdleCreate]
    /\ deletes = [d \in DeleteReqs |-> IdleDelete]
    /\ NoAccounts /\ NoLimiter /\ NoPool

NextDelete ==
    \/ \E d \in DeleteReqs : DeleteOrderRow(d)
    \/ \E d \in DeleteReqs : DeleteProductsOfOrder(d)
    \/ \E e \in EditReqs : EditRead(e) /\ PlainEdit(e)
    \/ \E e \in EditReqs : EditUpdate(e)
    \/ \E e \in EditReqs : EditDeleteProducts(e)
    \/ \E e \in EditReqs : EditInsertProduct(e)

SpecDelete == InitDelete /\ [][NextDelete]_vars

\* concurrent logins while time passes; the admin "admin" has failed some
\* logins before (fewer than it takes to lock the account)
NumLogins == 3
LoginReqs == 1..NumLogins
MaxElapsed == 2

\* time passes: a minute, or the duration of a lock
Elapse ==
    /\ now < MaxElapsed
    /\ \E dt \in {1, LockMinutes} : now' = now + dt
    /\ UNCHANGED <<ledgerVars, otherVars>>

InitLogin ==
    /\ now = 0
    /\ \E n \in 0..LockThreshold :
          admins = {AdminRow(1, "admin", n, NoDate), AdminRow(2, "owner", 0, NoDate)}
    /\ logins = [l \in LoginReqs |-> IdleLogin]
    /\ adminDeletes = <<>>
    /\ NoLedger /\ NoLimiter /\ NoPool

NextLogin ==
    \/ \E l \in LoginReqs : LoginCheckLock(l)
    \/ \E l \in LoginReqs : LoginGetAdmin(l)
    \/ \E l \in LoginReqs : LoginRecordFailure(l)
    \/ \E l \in LoginReqs : LoginReset(l)
    \/ Elapse

SpecLogin == InitLogin /\ [][NextLogin]_vars

\* concurrent delete_admin requests on two admin accounts
NumAdminDeletes == 3
AdminDeleteReqs == 1..NumAdminDeletes

InitAdmins ==
    /\ now = 0
    /\ admins = {AdminRow(1, "admin", 0, NoDate), AdminRow(2, "owner", 0, NoDate)}
    /\ logins = <<>>
    /\ adminDeletes = [a \in AdminDeleteReqs |-> IdleAdminDelete]
    /\ NoLedger /\ NoLimiter /\ NoPool

NextAdmins ==
    \/ \E a \in AdminDeleteReqs : AdminDeleteCount(a)
    \/ \E a \in AdminDeleteReqs : AdminDeleteRow(a)

SpecAdmins == InitAdmins /\ [][NextAdmins]_vars

\* requests of two clients through one rate limiting wrapper while time passes
MaxRequests == 4

InitLimiter ==
    /\ now = 0
    /\ \E limits \in LimitConfigs :
          rateLimiter = [limits |-> limits, store |-> [c \in ClientIds |-> <<>>]]
    /\ rateLog = <<>>
    /\ NoLedger /\ NoAccounts /\ NoPool

NextLimiter ==
    \/ \E c \in ClientIds : Len(rateLog) < MaxRequests /\ RateLimitedRequest(c)
    \/ Cleanup
    \/ Elapse

SpecLimiter == InitLimiter /\ [][NextLimiter]_vars

\* the handlers' calls of getDatabase() in a fresh process
NumDbCalls == 4
DbCallers == 1..NumDbCalls

InitPool ==
    /\ now = 0
    /\ pool = NullPool
    /\ dbCalls = [k \in DbCallers |-> IdleDbCall]
    /\ NoLedger /\ NoAccounts /\ NoLimiter

NextPool ==
    \/ \E k \in DbCallers : GetDatabaseEnter(k)
    \/ \E k \in DbCallers : ConnectionTest(k)
    \/ \E k \in DbCallers : InitializeDatabase(k)

SpecPool == InitPool /\ [][NextPool]_vars

(* ------------------------------------------------------------ the claims *)
Reqs == DOMAIN claims
Done(r) == claims[r].pc = "done"
OutcomeOf(r) == Outcome(claims[r].resp)
\* the requests that looked identifier id up
ClaimsOn(id) == {r \in Reqs : claims[r].orderId = id}
NoEdit == \A e \in DOMAIN edits : edits[e].pc = "idle"
\* the links of the products table for the products associated with order key
LinksOfOrder(key) == {p.download_link : p \in SelectProductsOfOrder(orderProducts, key)}
Range(f) == {f[i] : i \in DOMAIN f}
\* the order is associated with at least one product
HasProducts(o) == SelectProductsOfOrder(orderProducts, o.id) # {}

\* C1: with no admin edit, once N >= 2 concurrent claims of an unexpired
\* one-time-use order (initially unclaimed, with products) have all been
\* answered, exactly one is SUCCESS, the N-1 others are ALREADY_CLAIMED, and
\* the order's claim_count is 1.
C1_ExactlyOneSuccess ==
    \A o \in orders :
        LET rs == ClaimsOn(o.order_id)
        IN  (/\ NoEdit
             /\ o.one_time_use
             /\ ~IsExpired(o, now)
             /\ HasProducts(o)
             /\ Cardinality(rs) >= 2
             /\ \A r \in rs : Done(r))
            => /\ Cardinality({r \in rs : OutcomeOf(r) = "SUCCESS"}) = 1
               /\ Cardinality({r \in rs : OutcomeOf(r) = "ALREADY_CLAIMED"}) = Cardinality(rs) - 1
               /\ o.claim_count = 1

\* C2: with no admin edit, once N concurrent claims of an unexpired multi-use
\* order (initially unclaimed, with products) have all been answered, all N
\* are SUCCESS and the order's claim_count is N.
C2_NoLostIncrement ==
    \A o \in orders :
        LET rs == ClaimsOn(o.order_id)
        IN  (/\ NoEdit
             /\ ~o.one_time_use
             /\ ~IsExpired(o, now)
             /\ HasProducts(o)
             /\ \A r \in rs : Done(r))
            => /\ \A r \in rs : OutcomeOf(r) = "SUCCESS"
               /\ o.claim_count = Cardinality(rs)

\* C3: a step of a claim request that does not end it in SUCCESS changes no
\* row of orders or order_products; a request that ended has run the UPDATE
\* once if it ended in SUCCESS and never otherwise.
C3_OnlySuccessMutates ==
    [][\A r \in Reqs :
          claims'[r] # claims[r] =>
             /\ ~claims'[r].resp.success =>
                   orders' = orders /\ orderProducts' = orderProducts
             /\ claims'[r].pc = "done" =>
                   claims'[r].updates = (IF claims'[r].resp.success THEN 1 ELSE 0)]_vars

C3_Witness ==
    \E r, q \in Reqs :
        /\ Done(r) /\ OutcomeOf(r) = "NO_PRODUCTS"
        /\ Done(q) /\ OutcomeOf(q) = "SUCCESS"

\* C4: a claim that looks up an order whose expiration_date is before the
\* current time ends with EXPIRED in that step, whatever claim_count and
\* one_time_use are.
C4_ExpiredFirst ==
    [][\A r \in Reqs :
          (claims[r].pc = "idle" /\ claims'[r].pc # "idle" /\ claims'[r].orderId # "") =>
             \A o \in orders :
                (/\ o.order_id = claims'[r].orderId
                 /\ o.expiration_date # NoDate
                 /\ o.expiration_date < now)
                => /\ claims'[r].pc = "done"
                   /\ Outcome(claims'[r].resp) = "EXPIRED"
                   /\ claims'[r].resp.message = MsgExpired]_vars

C4_Witness ==
    \E r \in Reqs :
        /\ Done(r) /\ OutcomeOf(r) = "EXPIRED"
        /\ claims[r].order[1].one_time_use
        /\ claims[r].order[1].claim_count >= 1

\* C5: a response that is not SUCCESS has success = false, a message and a
\* status and nothing else: download_links and products are in the body of a
\* SUCCESS only.
C5_LinksOnlyOnSuccess ==
    \A r \in Reqs :
        Done(r) =>
            IF OutcomeOf(r) = "SUCCESS"
            THEN {"products", "download_links"} \subseteq DOMAIN claims[r].resp
            ELSE /\ DOMAIN claims[r].resp = {"success", "message", "status"}
                 /\ claims[r].resp.success = FALSE
                 /\ claims[r].resp.message # ""
                 /\ OutcomeOf(r) \in {"NOT_FOUND", "EXPIRED", "ALREADY_CLAIMED",
                                      "NO_PRODUCTS", "BAD_REQUEST"}

C5_Witness ==
    \E r, q \in Reqs :
        /\ Done(r) /\ OutcomeOf(r) = "ALREADY_CLAIMED"
        /\ Done(q) /\ OutcomeOf(q) = "SUCCESS" /\ Len(claims[q].resp.download_links) >= 1

\* C6: in a SUCCESS response products and download_links have the same
\* non-zero length, and download_links[i] is the download_link of the row of
\* table products whose id is products[i].id.
C6_LinksAligned ==
    \A r \in Reqs :
        (Done(r) /\ OutcomeOf(r) = "SUCCESS") =>
            LET resp == claims[r].resp
            IN  /\ Len(resp.products) = Len(resp.download_links)
                /\ Len(resp.products) > 0
                /\ \A i \in 1..Len(resp.products) :
                      resp.download_links[i] = ProductRow(resp.products[i].id).download_link

C6_Witness ==
    \E r \in Reqs :
        /\ Done(r) /\ OutcomeOf(r) = "SUCCESS"
        /\ Len(claims[r].resp.products) >= 2

C8_ClaimCountMonotone ==
    [][\A o \in orders : \A n \in orders' :
          (n.id = o.id /\ n.claim_count < o.claim_count) =>
              (~o.one_time_use /\ n.one_time_use /\ n.claim_count = 0)]_vars

\* the status the policy and the count determine
DerivedStatus(one_time_use, claim_count) ==
    IF one_time_use /\ claim_count > 0 THEN "claimed" ELSE "available"

\* C9: in every reachable state the stored claim_status of every order is
\* 'claimed' when one_time_use holds and claim_count > 0, and 'available'
\* otherwise.
C9_StatusIsDerived ==
    \A o \in orders : o.claim_status = DerivedStatus(o.one_time_use, o.claim_count)

\* C10: sequential claims of a one-time-use order with products, initially
\* unclaimed, with no admin edit: of the claims that find it unexpired, the
\* first is SUCCESS with claim_count 1 and the download links of the order's
\* products, every later one is rejected with the already-claimed message,
\* and the order's claim_count is 1 from then on.
C10_SequentialOneTime ==
    \A o \in orders : \A r \in ClaimsOn(o.order_id) :
        (o.one_time_use /\ HasProducts(o) /\ Done(r) /\ OutcomeOf(r) # "EXPIRED") =>
            /\ o.claim_count = 1
            /\ IF \A q \in ClaimsOn(o.order_id) : q >= r
               THEN /\ claims[r].resp.success
                    /\ claims[r].resp.claim_count = 1
                    /\ Range(claims[r].resp.download_links) = LinksOfOrder(o.id)
               ELSE /\ ~claims[r].resp.success
                    /\ claims[r].resp.message = MsgAlreadyClaimed

C10_Witness ==
    \E o \in orders :
        /\ o.one_time_use
        /\ HasProducts(o)
        /\ ClaimsOn(o.order_id) = {1, 2, 3}
        /\ Done(3)
        /\ OutcomeOf(1) = "SUCCESS"
        /\ OutcomeOf(2) = "ALREADY_CLAIMED"
        /\ OutcomeOf(3) = "ALREADY_CLAIMED"

\* C11: sequential claims of a multi-use order with products, with no admin
\* edit: every claim that finds it unexpired is SUCCESS, the k-th of them
\* returns claim_count k, the stored claim_count is the number of successes
\* and the stored claim_status is 'available' throughout.
C11_MultiUseAccumulates ==
    \A o \in orders :
        (~o.one_time_use /\ HasProducts(o)) =>
            /\ o.claim_status = "available"
            /\ o.claim_count =
                  Cardinality({r \in ClaimsOn(o.order_id) : Done(r) /\ claims[r].resp.success})
            /\ \A r \in ClaimsOn(o.order_id) :
                  (Done(r) /\ OutcomeOf(r) # "EXPIRED") =>
                      /\ OutcomeOf(r) = "SUCCESS"
                      /\ claims[r].resp.claim_count =
                            Cardinality({q \in ClaimsOn(o.order_id) : q <= r})

C11_Witness ==
    \E o \in orders :
        /\ ~o.one_time_use
        /\ o.claim_status = "available"
        /\ ClaimsOn(o.order_id) = {1, 2, 3}
        /\ \A r \in {1, 2, 3} :
              Done(r) /\ OutcomeOf(r) = "SUCCESS" /\ claims[r].resp.claim_count = r

\* C12: an admin edit of an order that leaves it multi-use (so it does not
\* change one_time_use from false to true) and keeps its identifier, and the
\* one successful claim of that order, run concurrently: once both have
\* finished, claim_count is one more than the 0 it was before them.
C12_EditKeepsIncrement ==
    \A e \in DOMAIN edits : \A r \in Reqs : \A o \in orders :
        (/\ edits[e].pc = "done" /\ edits[e].id = o.id
         /\ ~o.one_time_use
         /\ ClaimsOn(o.order_id) = {r}
         /\ Done(r) /\ OutcomeOf(r) = "SUCCESS")
        => o.claim_count = 1

\* the requests whose lookup read the row of the order with key id
ClaimsOfKey(id) == {r \in Reqs : claims[r].order # <<>> /\ claims[r].order[1].id = id}

\* C13: handlers called one at a time.  The UPDATE of an edit that changes an
\* order from multi-use to one-time use leaves its claim_count 0, whatever it
\* was, and any other edit leaves claim_count as it was; and once an edit has
\* made a multi-use order one-time use, of the later claims that find it
\* unexpired the first is SUCCESS with claim_count 1 and every other one is
\* ALREADY_CLAIMED.
C13_FlipResetsCount ==
    /\ [][\A o \in orders : \A n \in orders' :
            (/\ n.id = o.id
             /\ \E e \in DOMAIN edits :
                   edits[e].pc = "update" /\ edits'[e].pc = "delete" /\ edits[e].id = o.id)
            => n.claim_count = (IF ~o.one_time_use /\ n.one_time_use THEN 0 ELSE o.claim_count)]_vars
    /\ [](\A o \in orders :
            LET after == {r \in ClaimsOfKey(o.id) :
                             Done(r) /\ claims[r].order[1].one_time_use
                                     /\ OutcomeOf(r) # "EXPIRED"}
            IN  (/\ o.one_time_use
                 /\ \E e \in DOMAIN edits : edits[e].pc = "done" /\ edits[e].id = o.id
                 /\ \E q \in ClaimsOfKey(o.id) : ~claims[q].order[1].one_time_use)
                => \A r \in after :
                      IF \A q \in after : q >= r
                      THEN OutcomeOf(r) = "SUCCESS" /\ claims[r].resp.claim_count = 1
                      ELSE OutcomeOf(r) = "ALREADY_CLAIMED")

\* C14: a step that changes the settings changes no row of orders or
\* order_products, and what a claim request does is determined by the order row,
\* its product rows and the clock, whatever the settings are: a lookup ends
\* NOT_FOUND, EXPIRED or ALREADY_CLAIMED or goes on according to the row alone,
\* the product step ends NO_PRODUCTS exactly when no product row is joined, and
\* the update step answers SUCCESS with the row's claim_count plus one.
C14_SettingsNotConsulted ==
    [][/\ settings' # settings => (orders' = orders /\ orderProducts' = orderProducts)
       /\ \A r \in Reqs :
             /\ (claims[r].pc = "idle" /\ claims'[r].pc # "idle" /\ claims'[r].orderId # "") =>
                   LET rows == {o \in orders : o.order_id = claims'[r].orderId}
                   IN  IF rows = {} THEN Outcome(claims'[r].resp) = "NOT_FOUND"
                       ELSE \E o \in rows :
                              IF o.expiration_date # NoDate /\ now > o.expiration_date
                              THEN Outcome(claims'[r].resp) = "EXPIRED"
                              ELSE IF o.one_time_use /\ o.claim_count >= 1
                              THEN Outcome(claims'[r].resp) = "ALREADY_CLAIMED"
                              ELSE claims'[r].pc = "products"
             /\ (claims[r].pc = "products" /\ claims'[r].pc # "products") =>
                   IF \E op \in orderProducts : op.order_id = claims[r].order[1].id
                   THEN claims'[r].pc = "update"
                   ELSE Outcome(claims'[r].resp) = "NO_PRODUCTS"
             /\ (claims[r].pc = "update" /\ claims'[r].pc # "update") =>
                   /\ Outcome(claims'[r].resp) = "SUCCESS"
                   /\ claims'[r].resp.claim_count = claims[r].order[1].claim_count + 1]_vars

C14_Witness ==
    /\ settings.one_time_use_enabled = "false"
    /\ settings.default_expiration_days # DefaultExpirationDays
    /\ \E r, q \in Reqs :
          /\ Done(r) /\ OutcomeOf(r) = "ALREADY_CLAIMED"
          /\ Done(q) /\ OutcomeOf(q) = "SUCCESS"

\* C15: the INSERT of a creation whose body has neither expiration_days nor
\* one_time_use stores one_time_use equal to the setting one_time_use_enabled
\* and expiration_date equal to the clock plus the setting
\* default_expiration_days, both as they are at that moment.
C15_DefaultsFromSettings ==
    [][\A c \in DOMAIN creates :
          (/\ creates[c].pc = "insert" /\ creates'[c].pc = "products"
           /\ creates[c].expiration_days = <<>>
           /\ creates[c].one_time_use = <<>>)
          => \E n \in orders' \ orders :
                /\ n.id = creates'[c].newOrderId
                /\ n.one_time_use = (settings.one_time_use_enabled = "true")
                /\ n.expiration_date = now + settings.default_expiration_days]_vars

\* C16: under any interleaving of order creations and order edits no two rows
\* of orders have the same order_id; and a creation whose order_id is the
\* order_id of a row when it looks it up ends there with 400 'Order ID already
\* exists', changing no row of orders or order_products, and has inserted
\* nothing.
C16_OrderIdUnique ==
    /\ [](\A o, n \in orders : o.order_id = n.order_id => o = n)
    /\ [](\A c \in DOMAIN creates :
            creates[c].error = MsgExists =>
               /\ creates[c].pc = "done" /\ creates[c].status = HTTP_BAD_REQUEST
               /\ creates[c].newOrderId = 0)
    /\ [][\A c \in DOMAIN creates :
            (/\ creates[c].pc = "idle" /\ creates'[c].pc # "idle"
             /\ \E o \in orders : o.order_id = creates'[c].order_id)
            => /\ creates'[c].pc = "done"
               /\ creates'[c].status = HTTP_BAD_REQUEST
               /\ creates'[c].error = MsgExists
               /\ orders' = orders
               /\ orderProducts' = orderProducts]_vars

C16_Witness ==
    /\ Cardinality(orders) = 3
    /\ \E c \in DOMAIN creates :
          creates[c].pc = "done" /\ creates[c].status = HTTP_BAD_REQUEST
                                 /\ creates[c].order_id = FreeId
    /\ \E e \in DOMAIN edits : edits[e].pc = "done" /\ edits[e].status = HTTP_SERVER_ERROR

\* C17: in every step, every row of orders keeps the order_id it has: no step
\* changes the order_id stored for an id.
C17_OrderIdImmutable ==
    [][\A o \in orders : \A n \in orders' : n.id = o.id => n.order_id = o.order_id]_vars

\* C18: every answered claim that is EXPIRED, ALREADY_CLAIMED or NO_PRODUCTS
\* has HTTP status 400, and an answered claim has HTTP status 404 exactly when
\* it is NOT_FOUND.
C18_PolicyRejectionsAre400 ==
    \A r \in Reqs :
        Done(r) =>
            /\ OutcomeOf(r) \in {"EXPIRED", "ALREADY_CLAIMED", "NO_PRODUCTS"}
                  => claims[r].resp.status = HTTP_BAD_REQUEST
            /\ claims[r].resp.status = HTTP_NOT_FOUND <=> OutcomeOf(r) = "NOT_FOUND"

\* C19: order 1 has products in the initial ledger, and every edit replaces
\* them by a non-empty list: no answered claim whose lookup read order 1 is
\* NO_PRODUCTS, whatever edit runs beside it.
C19_NoEmptyWindow ==
    \A r \in ClaimsOfKey(1) : Done(r) => OutcomeOf(r) # "NO_PRODUCTS"

\* C20: a step in which a claim request is answered 500 changes no row of orders
\* (claim_count, claim_timestamp and claim_status stay) nor of order_products;
\* a 500 answer has success = false and is none of NOT_FOUND, EXPIRED,
\* ALREADY_CLAIMED, NO_PRODUCTS, and its request never ran the UPDATE; and with
\* claims sent one after the other, failed ones included, the claim_count of
\* an order is the number of SUCCESS answers given for it.
C20_FailureAppliesNothing ==
    /\ [][\A r \in Reqs :
            (claims[r].pc # "done" /\ claims'[r].pc = "done"
                /\ claims'[r].resp.status = HTTP_SERVER_ERROR)
            => orders' = orders /\ orderProducts' = orderProducts]_vars
    /\ [](\A r \in Reqs :
            (Done(r) /\ claims[r].resp.status = HTTP_SERVER_ERROR) =>
                /\ ~claims[r].resp.success
                /\ OutcomeOf(r) = "SERVER_ERROR"
                /\ claims[r].updates = 0)
    /\ [](\A o \in orders :
            o.claim_count =
               Cardinality({r \in ClaimsOn(o.order_id) : Done(r) /\ OutcomeOf(r) = "SUCCESS"}))

C20_Witness ==
    \E r, q \in Reqs :
        /\ r < q
        /\ Done(r) /\ OutcomeOf(r) = "SERVER_ERROR" /\ claims[r].order # <<>>
        /\ Done(q) /\ OutcomeOf(q) = "SUCCESS" /\ claims[q].resp.claim_count = 1
        /\ claims[q].orderId = claims[r].orderId

\* C21: a claim request whose body has no orderId (or an empty one) is answered
\* in its first step with 400 'Order ID is required': it has read no order row
\* and no product row, has run no UPDATE, and the step changes no row of orders
\* or order_products.
C21_MissingIdRejectedFirst ==
    [][\A r \in Reqs :
          (claims[r].pc = "idle" /\ claims'[r].pc # "idle" /\ claims'[r].orderId = "")
          => /\ claims'[r].pc = "done"
             /\ claims'[r].resp = [success |-> FALSE, message |-> MsgRequired,
                                   status |-> HTTP_BAD_REQUEST]
             /\ claims'[r].order = <<>>
             /\ claims'[r].products = <<>>
             /\ claims'[r].updates = 0
             /\ orders' = orders
             /\ orderProducts' = orderProducts]_vars

C21_Witness ==
    \E r, q \in Reqs :
        /\ Done(r) /\ OutcomeOf(r) = "BAD_REQUEST" /\ claims[r].resp.status = HTTP_BAD_REQUEST
        /\ Done(q) /\ OutcomeOf(q) = "SUCCESS"

\* C22: a step of a claim request for identifier X changes no row of orders
\* whose order_id is not X, adds and removes no row of orders, changes no row
\* of order_products, and leaves id, order_id, one_time_use and expiration_date
\* of every row as they are (so on the claimed row only claim_count,
\* claim_timestamp and claim_status may change).
C22_ClaimFrame ==
    [][\A r \in Reqs :
          claims'[r] # claims[r] =>
             /\ orderProducts' = orderProducts
             /\ {o.id : o \in orders'} = {o.id : o \in orders}
             /\ Cardinality(orders') = Cardinality(orders)
             /\ \A o \in orders : \A n \in orders' :
                   n.id = o.id =>
                      /\ n.order_id = o.order_id
                      /\ n.one_time_use = o.one_time_use
                      /\ n.expiration_date = o.expiration_date
                      /\ o.order_id # claims'[r].orderId => n = o]_vars

C22_Witness ==
    \E r \in Reqs : \E o, p \in orders :
        /\ Done(r) /\ OutcomeOf(r) = "SUCCESS" /\ claims[r].orderId = o.order_id
        /\ o.claim_count = 1 /\ o.claim_timestamp # NoDate
        /\ p.id # o.id /\ p.claim_count = 0 /\ p.claim_timestamp = NoDate
        /\ p.claim_status = "available"

\* C27: with no admin edit, two answered SUCCESS claims of the same order never
\* carry the same claim_count.
C27_DistinctClaimCounts ==
    \A r, q \in Reqs :
        (/\ r # q /\ NoEdit
         /\ Done(r) /\ OutcomeOf(r) = "SUCCESS"
         /\ Done(q) /\ OutcomeOf(q) = "SUCCESS"
         /\ claims[r].orderId = claims[q].orderId)
        => claims[r].resp.claim_count # claims[q].resp.claim_count

\* C28: with no admin edit, an answered SUCCESS claim of an order that a
\* creation request inserted returns exactly the products of that request's
\* product_ids.
C28_ExactProductSet ==
    \A r \in Reqs : \A c \in DOMAIN creates :
        (/\ NoEdit
         /\ Done(r) /\ OutcomeOf(r) = "SUCCESS"
         /\ creates[c].newOrderId # 0
         /\ claims[r].order[1].id = creates[c].newOrderId)
        => {claims[r].resp.products[i].id : i \in DOMAIN claims[r].resp.products}
              = Range(creates[c].product_ids)

\* C23: once the DELETE FROM orders of a delete request has run, in every later
\* state the order row is gone and no row of order_products references the
\* deleted key, whatever an edit of the same order does meanwhile.
C23_NoOrphanAssociation ==
    \A d \in DOMAIN deletes :
        deletes[d].pc \in {"products", "done"} /\ deletes[d].id # <<>>
        => /\ ~\E o \in orders : o.id = deletes[d].id[1]
           /\ ~\E op \in orderProducts : op.order_id = deletes[d].id[1]

\* an edit of the order read the row, the deletion then ran to its end, and
\* the edit is about to INSERT its product associations
C23_Witness ==
    \E d \in DOMAIN deletes : \E e \in DOMAIN edits :
        /\ deletes[d].pc = "done" /\ deletes[d].status = HTTP_OK
        /\ edits[e].pc = "insert" /\ <<edits[e].id>> = deletes[d].id

\* C24: a recorded failure that brings failed_login_attempts to 5 or more sets
\* locked_until 30 minutes ahead; no login is answered 200 in a state where its
\* account is locked; and the step that answers 200 leaves the account with
\* failed_login_attempts 0 and no lock.
C24_Lockout ==
    [][\A l \in DOMAIN logins :
          /\ (logins[l].pc = "record" /\ logins'[l].pc = "done")
             => \A n \in admins' :
                   (n.username = logins[l].username /\ n.failed_login_attempts >= LockThreshold + 1)
                   => n.locked_until = now + LockMinutes
          /\ (logins[l].pc # "done" /\ logins'[l].pc = "done" /\ logins'[l].status = HTTP_OK)
             => /\ ~IsAdminLocked(admins, logins[l].username, now)
                /\ \A n \in admins' :
                      n.username = logins[l].username
                      => n.failed_login_attempts = 0 /\ n.locked_until = NoDate]_vars

\* C25: the table admins is never empty.
C25_AdminRemains == Cardinality(admins) >= 1

\* C29: a step of a login request taken while an account is locked leaves that
\* account's failed_login_attempts and locked_until as they are.
C29_LockedUnchanged ==
    [][\A a \in admins : \A n \in admins' :
          (/\ logins' # logins
           /\ n.id = a.id
           /\ a.locked_until # NoDate /\ a.locked_until > now)
          => /\ n.failed_login_attempts = a.failed_login_attempts
             /\ n.locked_until = a.locked_until]_vars

\* the entry of the store for a client, when there is one
EntryOf(c) == rateLimiter.store[c][1]

\* C26: of the requests of one client answered within one window (the same
\* resetTime), at most max were passed to the handler; a request of a client
\* whose entry has count >= max, made before the entry's resetTime, is answered
\* 429, does not reach the handler and leaves the store as it is; and a request
\* made after the resetTime of the client's entry is passed to the handler and
\* leaves the entry with count 1 and a resetTime one window ahead.
C26_AtMostMaxPerWindow ==
    /\ [](\A c \in ClientIds : \A i \in DOMAIN rateLog :
            Cardinality({j \in DOMAIN rateLog :
                            /\ rateLog[j].clientId = c
                            /\ rateLog[j].handled > 0
                            /\ rateLog[j].resetTime = rateLog[i].resetTime})
               <= rateLimiter.limits.max)
    /\ [][Len(rateLog') = Len(rateLog) + 1 =>
            LET e == rateLog'[Len(rateLog')]
                c == e.clientId
            IN  /\ (/\ rateLimiter.store[c] # <<>>
                    /\ EntryOf(c).count >= rateLimiter.limits.max
                    /\ now < EntryOf(c).resetTime)
                   => /\ e.status = HTTP_TOO_MANY
                      /\ e.handled = 0
                      /\ rateLimiter' = rateLimiter
                /\ (rateLimiter.store[c] # <<>> /\ now > EntryOf(c).resetTime)
                   => /\ e.status # HTTP_TOO_MANY
                      /\ e.handled = 1
                      /\ rateLimiter'.store[c] =
                            <<[count |-> 1, resetTime |-> now + rateLimiter.limits.windowMs]>>]_vars

\* a client used up its window, was answered 429 before the resetTime, and its
\* first request after the resetTime opened a new window
C26_Witness ==
    \E i, j, k \in DOMAIN rateLog :
        /\ i < j /\ j < k
        /\ rateLog[i].clientId = rateLog[j].clientId /\ rateLog[j].clientId = rateLog[k].clientId
        /\ rateLog[i].handled = 1
        /\ rateLog[j].status = HTTP_TOO_MANY /\ rateLog[j].at < rateLog[j].resetTime
        /\ rateLog[k].handled = 1 /\ rateLog[k].at > rateLog[j].resetTime
        /\ rateLimiter.store[rateLog[k].clientId] # <<>>
        /\ EntryOf(rateLog[k].clientId).count = 1

\* C30: every call of getDatabase that has returned got a pool whose
\* connection test had passed and whose schema had been initialized, and at
\* most one Pool was constructed.
C30_InitializedBeforeReturn ==
    /\ \A k \in DOMAIN dbCalls :
          dbCalls[k].pc = "returned"
          => dbCalls[k].got[1].tested /\ dbCalls[k].got[1].initialized
    /\ pool.constructed <= 1

====
